---- MODULE Spec2Model ----
(***************************************************************************)
(* A model of base16.py, the base16 theme manager: the downloaded-file     *)
(* plugins (xresources, dunst, i3), the shell plugin, and the four         *)
(* commands doctor, install, list and show.                                *)
(*                                                                         *)
(* Text is a sequence of characters.  Characters that the program never    *)
(* looks into are kept as chunks: the magic phrase, the word "Generated",  *)
(* the "base16-" prefix and the ".sh" suffix of a script name are one      *)
(* element each; digits, blanks, newlines and comment characters are       *)
(* single characters.                                                      *)
(***************************************************************************)
EXTENDS Integers, Sequences, FiniteSets, TLC

\* Number of commands run in one behaviour.
MaxCmds == 2

\* abs(mtime - timestamp) > 5 in validate
TOLERANCE == 5

MAGIC_STRING == "Written by base16 manager, do not modify manually"

NL == "\n"
SP == " "
DigitChars == <<"0", "1", "2", "3", "4", "5", "6", "7", "8", "9">>
Whitespace == {SP, NL}

\* SUPPORTED_PLUGINS, in the order the dict is written (and iterated)
Registry == <<"shell", "xresources", "dunst", "i3">>
RegistrySet == {Registry[i] : i \in 1..Len(Registry)}
Downloaded == {"xresources", "dunst", "i3"}

Comment(p) == IF p = "xresources" THEN "!" ELSE "#"
HasPostProcess(p) == p = "xresources"

-----------------------------------------------------------------------------
(* Strings *)

Abs(n) == IF n < 0 THEN -n ELSE n

\* str(n) for n >= 0, as "{int(time.time())}" formats it
RECURSIVE ToDigitsReversed(_)
ToDigitsReversed(n) ==
    IF n < 10 THEN <<DigitChars[n + 1]>>
    ELSE <<DigitChars[(n % 10) + 1]>> \o ToDigitsReversed(n \div 10)

RECURSIVE ToDigits(_)
ToDigits(n) ==
    IF n < 10 THEN <<DigitChars[n + 1]>>
    ELSE ToDigits(n \div 10) \o <<DigitChars[(n % 10) + 1]>>

IsDigit(c) == \E d \in 1..10 : DigitChars[d] = c
DigitVal(c) == (CHOOSE d \in 1..10 : DigitChars[d] = c) - 1

\* int(s) for a string of digits
RECURSIVE ParseInt(_)
ParseInt(s) ==
    IF s = <<>> THEN 0
    ELSE 10 * ParseInt(SubSeq(s, 1, Len(s) - 1)) + DigitVal(s[Len(s)])

\* str.strip()
RECURSIVE LStrip(_)
LStrip(s) ==
    IF s # <<>> /\ s[1] \in Whitespace THEN LStrip(Tail(s)) ELSE s

RECURSIVE RStrip(_)
RStrip(s) ==
    IF s # <<>> /\ s[Len(s)] \in Whitespace
    THEN RStrip(SubSeq(s, 1, Len(s) - 1))
    ELSE s

Strip(s) == LStrip(RStrip(s))

\* f.readlines(): the lines of the text, each with its newline
RECURSIVE ReadLines(_)
ReadLines(s) ==
    IF s = <<>> THEN <<>>
    ELSE LET ends == {i \in 1..Len(s) : s[i] = NL}
             cut == IF ends = {} THEN Len(s)
                    ELSE CHOOSE i \in ends : \A j \in ends : i <= j
         IN <<SubSeq(s, 1, cut)>> \o ReadLines(SubSeq(s, cut + 1, Len(s)))

EndsWithNewline(s) == s # <<>> /\ s[Len(s)] = NL

-----------------------------------------------------------------------------
(* Files *)

Absent == [exists |-> FALSE, content |-> <<>>, mtime |-> 0]
File(c, t) == [exists |-> TRUE, content |-> c, mtime |-> t]

-----------------------------------------------------------------------------
(* DownloadedPluginInfo *)

\* The two header lines generate() writes
Header(c, now) ==
    <<c, SP, MAGIC_STRING, NL, c, SP, "Generated", SP>> \o ToDigits(now) \o <<NL>>

\* re.match(f"{self.comment} Generated (\d+)$", line)
MatchTimestamp(c, line) ==
    LET ok == /\ Len(line) >= 5
              /\ SubSeq(line, 1, 4) = <<c, SP, "Generated", SP>>
              /\ \A i \in 5..Len(line) : IsDigit(line[i])
    IN [matched |-> ok,
        group |-> IF ok THEN SubSeq(line, 5, Len(line)) ELSE <<>>]

\* A variant of the check below that also rejects a difference of exactly
\* TOLERANCE seconds.
ModifiedAtTolerance(mtime, ts) == Abs(mtime - ts) >= TOLERANCE

\* abs(int(os.path.getmtime(self.path)) - int(m.group(1))) > 5
ModifiedAfterGeneration(mtime, ts) == Abs(mtime - ts) > TOLERANCE

\* DownloadedPluginInfo.validate on target file tgt and base file b
DValidate(p, tgt, b) ==
    IF ~tgt.exists THEN b.exists
    ELSE LET lines == ReadLines(tgt.content) IN
         IF lines = <<>> THEN TRUE
         ELSE IF Len(lines) < 2 THEN FALSE
         ELSE IF Strip(lines[1]) # <<Comment(p), SP, MAGIC_STRING>> THEN FALSE
         ELSE LET m == MatchTimestamp(Comment(p), Strip(lines[2])) IN
              IF ~m.matched THEN FALSE
              ELSE IF ModifiedAfterGeneration(tgt.mtime, ParseInt(m.group))
                   THEN FALSE
                   ELSE TRUE

\* A variant of get_file that treats a 404 like any other answer.
GetFileIgnoringStatus(resp) == [exc |-> "none", text |-> resp.text]

\* DownloadedPluginInfo.get_file: on a 404 the raise statement formats its
\* message with the name path, which is bound nowhere in get_file or the
\* module, so evaluating it raises NameError in place of PathNotFoundError.
GetFile(resp) ==
    IF resp.status = 404
    THEN [exc |-> "NameError", text |-> <<>>]
    ELSE [exc |-> "none", text |-> resp.text]

\* A variant of the output that always puts a newline before the theme.
BuildOutputAlwaysPadded(c, now, baseText, theme_str) ==
    Header(c, now) \o baseText \o <<NL>> \o theme_str

\* A variant of the output that keeps no header.
BuildOutputNoHeader(c, now, baseText, theme_str) ==
    LET out == baseText
    IN (IF EndsWithNewline(out) THEN out ELSE out \o <<NL>>) \o theme_str

\* The text generate() writes
BuildOutput(c, now, baseText, theme_str) ==
    LET out == Header(c, now) \o baseText
    IN (IF EndsWithNewline(out) THEN out ELSE out \o <<NL>>) \o theme_str

\* DownloadedPluginInfo.generate.  now is the clock read for the header,
\* skew the distance of the written file's mtime from it, hookOk whether
\* the post-process command exits 0.
Generate(p, tgt, b, theme_str, now, skew, hookOk) ==
    IF ~DValidate(p, tgt, b)
    THEN [ret |-> FALSE, target |-> tgt, wrote |-> FALSE, hookRan |-> FALSE,
          valid |-> "fail"]
    ELSE IF ~b.exists
    THEN [ret |-> FALSE, target |-> tgt, wrote |-> FALSE, hookRan |-> FALSE,
          valid |-> "ok"]
    ELSE [ret |-> ~HasPostProcess(p) \/ hookOk,
          target |-> File(BuildOutput(Comment(p), now, b.content, theme_str),
                          now + skew),
          wrote |-> TRUE,
          hookRan |-> HasPostProcess(p),
          valid |-> "ok"]

\* DownloadedPluginInfo.install
DownloadedInstall(p, tgt, b, resp, now, skew, hookOk) ==
    LET g == GetFile(resp) IN
    IF g.exc = "PathNotFoundError"
    THEN [outcome |-> "fail", target |-> tgt, wrote |-> FALSE,
          hookRan |-> FALSE, valid |-> "none"]
    ELSE IF g.exc # "none"
    THEN [outcome |-> "raised", target |-> tgt, wrote |-> FALSE,
          hookRan |-> FALSE, valid |-> "none"]
    ELSE LET r == Generate(p, tgt, b, g.text, now, skew, hookOk) IN
         [outcome |-> IF r.ret THEN "ok" ELSE "fail", target |-> r.target,
          wrote |-> r.wrote, hookRan |-> r.hookRan, valid |-> r.valid]

-----------------------------------------------------------------------------
(* ShellPluginInfo *)

LinkName == <<".base16_theme">>
ScriptName(theme) == <<"base16-">> \o theme \o <<".sh">>

\* SCRIPT_NAME_PATTERN.match(name): 'base16-(.*)\.sh$'
MatchScriptName(name) ==
    LET ok == Len(name) >= 2 /\ name[1] = "base16-" /\ name[Len(name)] = ".sh"
    IN [matched |-> ok,
        group |-> IF ok THEN SubSeq(name, 2, Len(name) - 1) ELSE <<>>]

NoLink == [kind |-> "absent", dest |-> <<>>]
RegularFile == [kind |-> "file", dest |-> <<>>]
Symlink(name) == [kind |-> "symlink", dest |-> name]

\* (Path.home() / '.base16_theme').resolve().name
ResolvedName(l) == IF l.kind = "symlink" THEN l.dest ELSE LinkName

\* A variant of current_theme that reports the whole script name.
CurrentThemeWholeName(l) ==
    LET m == MatchScriptName(ResolvedName(l))
    IN [none |-> ~m.matched, theme |-> IF m.matched THEN ResolvedName(l) ELSE <<>>]

\* ShellPluginInfo.current_theme
CurrentTheme(l) ==
    LET m == MatchScriptName(ResolvedName(l))
    IN [none |-> ~m.matched, theme |-> m.group]

\* the text install writes to ~/.vimrc_background
VimrcText(theme) ==
    <<"if !exists('g:colors_name') || g:colors_name != '", "base16-">> \o theme
    \o <<"'", NL, "  colorscheme ", "base16-">> \o theme \o <<NL, "endif", NL>>

\* ShellPluginInfo.install, on the scripts scr of the integration directory,
\* the link l at ~/.base16_theme and the file v at ~/.vimrc_background
ShellInstall(t, dirOk, scr, l, v) ==
    IF ~(dirOk /\ ScriptName(t) \in scr)
    THEN [ret |-> FALSE, link |-> l, vimrc |-> v]
    ELSE [ret |-> TRUE, link |-> Symlink(ScriptName(t)),
          vimrc |-> File(VimrcText(t), 0)]

\* ShellPluginInfo.available_themes
AvailableThemes(dirOk, scr) ==
    IF ~dirOk THEN {}
    ELSE {MatchScriptName(n).group :
            n \in {m \in scr : m[Len(m)] = ".sh" /\ MatchScriptName(m).matched}}

\* ShellPluginInfo.validate
ShellValidate(dirOk, envSet, scr, l) ==
    IF ~dirOk THEN FALSE
    ELSE IF ~envSet THEN FALSE
    ELSE IF ~(l.kind = "file" \/ (l.kind = "symlink" /\ l.dest \in scr))
    THEN FALSE
    ELSE TRUE

-----------------------------------------------------------------------------
(* State *)

VARIABLES
    config,     \* the config file: [exists, enabled]
    target,     \* the managed file of each downloaded-file plugin
    base,       \* its .base companion
    shellDir,   \* ~/.config/base16-shell is a directory
    envSet,     \* BASE16_THEME is in the environment
    scripts,    \* the file names in ~/.config/base16-shell/scripts
    link,       \* what is at ~/.base16_theme
    vimrc,      \* ~/.vimrc_background
    clock,      \* time.time(), in whole seconds
    fsSkew,     \* how far a written file's mtime is from the clock read before
    pc,         \* "idle", or "install" inside cmd_install's loop
    idx,        \* position of that loop in the registry
    theme,      \* args.theme
    cmds,       \* commands run so far
    lastCmd,    \* the command last started
    exitCode,   \* exit status of the last finished command
    traceback,  \* whether it ended by an exception nothing caught
    stdout,     \* the theme names it printed
    pre,        \* target, link, vimrc and config as the command found them
    res,        \* outcome of each plugin's install() in this command
    resp,       \* the answer each plugin's fetch got in this command
    valid,      \* result of each plugin's validate() in this command
    wrote,      \* the plugins whose target this command wrote
    hookRan,    \* the plugins whose post-process hook this command ran
    lastText,   \* theme text of the last install that wrote each target
    order       \* the plugins whose install() this command called, in order

vars == <<config, target, base, shellDir, envSet, scripts, link, vimrc, clock,
          fsSkew, pc, idx, theme, cmds, lastCmd, exitCode, traceback, stdout,
          pre, res, resp, valid, wrote, hookRan, lastText, order>>

env == <<base, shellDir, envSet, scripts, fsSkew>>
hist == <<pre, res, resp, valid, wrote, hookRan, order>>

Themes == {<<"dracula">>, <<"solarized", "-dark">>}
PluginNames == RegistrySet \cup {"tmux"}

\* response.text of a fetch that is not a 404
ThemeText(t) == IF t = <<"dracula">> THEN <<"y", NL>> ELSE <<"y">>
NoResponse == [status |-> 0, text |-> <<>>]
Responses(t) == {[status |-> 404, text |-> <<"404: Not Found">>],
                 [status |-> 200, text |-> ThemeText(t)]}

ClockStart == TOLERANCE + 4
Stamp == TOLERANCE + 2

Config(e) == [exists |-> TRUE, enabled |-> e]
NoConfig == [exists |-> FALSE, enabled |-> {}]

ConfigStates ==
    {NoConfig} \cup {Config(e) : e \in SUBSET RegistrySet}
    \cup {Config({"shell", "tmux"}), Config({"tmux"})}

\* What a target file can hold before the first command
TargetStates(p) ==
    LET other == IF Comment(p) = "!" THEN "#" ELSE "!" IN
    {Absent,
     File(<<>>, Stamp),
     File(<<"x", NL>>, Stamp),
     File(<<"x", NL, "x", NL>>, Stamp),
     File(<<Comment(p), SP, MAGIC_STRING>>, Stamp),
     File(Header(other, Stamp) \o <<"x", NL>>, Stamp),
     File(<<Comment(p), SP, MAGIC_STRING, NL, Comment(p), SP, "Generated", SP,
            "x", NL>>, Stamp),
     File(<<Comment(p), SP, MAGIC_STRING, NL, Comment(p), SP, "Generated", SP,
            NL>>, Stamp),
     File(<<SP, Comment(p), SP, MAGIC_STRING, SP, NL, Comment(p), SP,
            "Generated", SP, "0">> \o ToDigits(Stamp) \o <<SP, NL, "x", NL>>,
          Stamp)}
    \cup {File(Header(Comment(p), Stamp) \o <<"x", NL>>, Stamp + d) :
            d \in {-(TOLERANCE + 1), -TOLERANCE, 0, TOLERANCE, TOLERANCE + 1}}

BaseStates ==
    {Absent, File(<<>>, 0), File(<<"x">>, 0), File(<<"x", NL>>, 0)}

DefaultBase == File(<<"x", NL>>, 0)

ScriptSets ==
    {{}, {ScriptName(<<"dracula">>)},
     {ScriptName(<<"dracula">>), ScriptName(<<"solarized", "-dark">>),
      <<"helper", ".sh">>, <<"base16-", "README">>}}

LinkStates == {NoLink, RegularFile} \cup {Symlink(ScriptName(t)) : t \in Themes}

TypeOK ==
    /\ config \in [exists : BOOLEAN, enabled : SUBSET PluginNames]
    /\ DOMAIN target = Downloaded /\ DOMAIN base = Downloaded
    /\ shellDir \in BOOLEAN /\ envSet \in BOOLEAN
    /\ pc \in {"idle", "install"}
    /\ idx \in 1..(Len(Registry) + 1)
    /\ cmds \in 0..MaxCmds
    /\ exitCode \in {0, 1}
    /\ traceback \in BOOLEAN
    /\ fsSkew \in 0..(TOLERANCE + 1)

InitHistory ==
    /\ pre = [target |-> target, link |-> link, vimrc |-> vimrc, config |-> config]
    /\ res = [p \in RegistrySet |-> "none"]
    /\ resp = [p \in Downloaded |-> NoResponse]
    /\ valid = [p \in RegistrySet |-> "none"]
    /\ wrote = {}
    /\ hookRan = {}
    /\ lastText = [p \in Downloaded |-> <<>>]
    /\ order = <<>>

InitControl ==
    /\ clock = ClockStart
    /\ pc = "idle" /\ idx = 1 /\ theme = <<>> /\ cmds = 0
    /\ lastCmd = "none" /\ exitCode = 0 /\ traceback = FALSE /\ stdout = {}

DefaultShell ==
    /\ shellDir = TRUE /\ envSet = TRUE
    /\ scripts = {ScriptName(<<"dracula">>)}
    /\ link = NoLink /\ vimrc = Absent

DefaultFiles ==
    /\ target = [p \in Downloaded |-> Absent]
    /\ base = [p \in Downloaded |-> DefaultBase]

\* The environments a behaviour starts in: any config over untouched files,
\* any state of the shell integration, or any state of one plugin's files.
InitEnv ==
    \/ /\ config \in ConfigStates
       /\ DefaultShell /\ DefaultFiles
    \/ /\ config \in {Config({"shell"}), Config(RegistrySet)}
       /\ shellDir \in BOOLEAN /\ envSet \in BOOLEAN
       /\ scripts \in ScriptSets /\ (~shellDir => scripts = {})
       /\ link \in LinkStates /\ vimrc \in {Absent, File(<<"x", NL>>, 0)}
       /\ DefaultFiles
    \/ /\ config \in {Config(RegistrySet), Config(Downloaded)}
       /\ DefaultShell
       /\ \E f \in Downloaded :
            /\ \E tf \in TargetStates(f) :
                 target = [p \in Downloaded |-> IF p = f THEN tf ELSE Absent]
            /\ \E bf \in BaseStates :
                 base = [p \in Downloaded |-> IF p = f THEN bf ELSE DefaultBase]

Init ==
    /\ InitEnv
    /\ fsSkew \in {0, TOLERANCE, TOLERANCE + 1}
    /\ InitControl
    /\ InitHistory

\* Init with no target file yet
InitFresh == Init /\ \A p \in Downloaded : ~target[p].exists

-----------------------------------------------------------------------------
(* Commands *)

\* validate() of plugin p on the present state
PluginValidate(p) ==
    IF p = "shell" THEN ShellValidate(shellDir, envSet, scripts, link)
    ELSE DValidate(p, target[p], base[p])

\* The loop of cmd_doctor from position i on; v collects the validate() results.
RECURSIVE DoctorLoop(_, _, _)
DoctorLoop(i, enabled, v) ==
    IF i > Len(Registry) THEN [exit |-> 0, valid |-> v]
    ELSE IF Registry[i] \notin enabled THEN DoctorLoop(i + 1, enabled, v)
    ELSE IF ~PluginValidate(Registry[i])
         THEN [exit |-> 1, valid |-> [v EXCEPT ![Registry[i]] = "fail"]]
         ELSE DoctorLoop(i + 1, enabled, [v EXCEPT ![Registry[i]] = "ok"])

\* A variant of cmd_doctor without the requirement on the shell plugin.
DoctorShellOptional(enabled) ==
    LET none == [p \in RegistrySet |-> "none"] IN
    IF enabled \ RegistrySet # {} THEN [exit |-> 1, valid |-> none]
    ELSE DoctorLoop(1, enabled, none)

\* cmd_doctor once the config is loaded
Doctor(enabled) ==
    LET none == [p \in RegistrySet |-> "none"] IN
    IF enabled \ RegistrySet # {} THEN [exit |-> 1, valid |-> none]
    ELSE IF "shell" \notin enabled THEN [exit |-> 1, valid |-> none]
    ELSE DoctorLoop(1, enabled, none)

\* What every command does first: the clock moves on and the record of the
\* previous command is cleared.
Begin(name) ==
    /\ pc = "idle"
    /\ cmds < MaxCmds
    /\ cmds' = cmds + 1
    /\ clock' = clock + 1
    /\ lastCmd' = name
    /\ pre' = [target |-> target, link |-> link, vimrc |-> vimrc, config |-> config]
    /\ res' = [p \in RegistrySet |-> "none"]
    /\ resp' = [p \in Downloaded |-> NoResponse]
    /\ wrote' = {}
    /\ hookRan' = {}
    /\ order' = <<>>

\* main() when Config() raises FileNotFoundError
ConfigMissing ==
    /\ exitCode' = 1 /\ traceback' = FALSE /\ stdout' = {}
    /\ valid' = [p \in RegistrySet |-> "none"]
    /\ UNCHANGED <<config, target, link, vimrc, pc, idx, theme, lastText>>

CmdDoctor ==
    /\ Begin("doctor")
    /\ LET cfg == IF config.exists THEN config ELSE Config({})
           d == Doctor(cfg.enabled)
       IN /\ config' = cfg
          /\ exitCode' = d.exit
          /\ valid' = d.valid
    /\ traceback' = FALSE /\ stdout' = {}
    /\ UNCHANGED <<target, link, vimrc, pc, idx, theme, lastText, env>>

CmdList ==
    /\ Begin("list")
    /\ IF ~config.exists THEN ConfigMissing
       ELSE /\ stdout' = AvailableThemes(shellDir, scripts)
            /\ exitCode' = 0 /\ traceback' = FALSE
            /\ valid' = [p \in RegistrySet |-> "none"]
            /\ UNCHANGED <<config, target, link, vimrc, pc, idx, theme, lastText>>
    /\ UNCHANGED env

CmdShow ==
    /\ Begin("show")
    /\ IF ~config.exists THEN ConfigMissing
       ELSE /\ LET t == CurrentTheme(link) IN
                 IF t.none THEN stdout' = {} /\ exitCode' = 1
                 ELSE stdout' = {t.theme} /\ exitCode' = 0
            /\ traceback' = FALSE
            /\ valid' = [p \in RegistrySet |-> "none"]
            /\ UNCHANGED <<config, target, link, vimrc, pc, idx, theme, lastText>>
    /\ UNCHANGED env

\* main() dispatching to cmd_install
CmdInstall(t) ==
    /\ Begin("install")
    /\ IF ~config.exists THEN ConfigMissing
       ELSE /\ pc' = "install" /\ idx' = 1 /\ theme' = t
            /\ stdout' = {} /\ traceback' = FALSE
            /\ valid' = [p \in RegistrySet |-> "none"]
            /\ UNCHANGED <<config, target, link, vimrc, exitCode, lastText>>
    /\ UNCHANGED env

\* A variant of the loop that goes on to the next plugin after a failure.
InstallLoopNextKeepGoing(outcome, i) ==
    IF outcome = "raised"
    THEN [pc |-> "idle", idx |-> i, exitCode |-> 1, traceback |-> TRUE]
    ELSE [pc |-> "install", idx |-> i + 1, exitCode |-> exitCode,
          traceback |-> FALSE]

\* cmd_install after install() of the plugin at position i: False returns 1,
\* an exception leaves main() and the interpreter exits with status 1 and a
\* traceback, True goes on with the loop.
InstallLoopNext(outcome, i) ==
    IF outcome = "ok"
    THEN [pc |-> "install", idx |-> i + 1, exitCode |-> exitCode,
          traceback |-> FALSE]
    ELSE IF outcome = "fail"
    THEN [pc |-> "idle", idx |-> i, exitCode |-> 1, traceback |-> FALSE]
    ELSE [pc |-> "idle", idx |-> i, exitCode |-> 1, traceback |-> TRUE]

InLoop == pc = "install" /\ idx <= Len(Registry)

\* if plugin not in config.enabled: continue
InstallSkip ==
    /\ InLoop
    /\ Registry[idx] \notin config.enabled
    /\ idx' = idx + 1
    /\ UNCHANGED <<config, target, link, vimrc, clock, pc, theme, cmds, lastCmd,
                   exitCode, traceback, stdout, lastText, env, hist>>

InstallShell ==
    /\ InLoop
    /\ Registry[idx] = "shell" /\ "shell" \in config.enabled
    /\ LET r == ShellInstall(theme, shellDir, scripts, link, vimrc)
           n == InstallLoopNext(IF r.ret THEN "ok" ELSE "fail", idx)
       IN /\ link' = r.link /\ vimrc' = r.vimrc
          /\ res' = [res EXCEPT !["shell"] = IF r.ret THEN "ok" ELSE "fail"]
          /\ pc' = n.pc /\ idx' = n.idx /\ exitCode' = n.exitCode
          /\ traceback' = n.traceback
    /\ order' = Append(order, "shell")
    /\ UNCHANGED <<config, target, clock, theme, cmds, lastCmd, stdout, lastText,
                   env, pre, resp, valid, wrote, hookRan>>

InstallDownloaded ==
    /\ InLoop
    /\ Registry[idx] \in Downloaded /\ Registry[idx] \in config.enabled
    /\ \E answer \in Responses(theme), hookOk \in BOOLEAN :
         LET p == Registry[idx]
             r == DownloadedInstall(p, target[p], base[p], answer, clock,
                                    fsSkew, hookOk)
             n == InstallLoopNext(r.outcome, idx)
         IN /\ target' = [target EXCEPT ![p] = r.target]
            /\ res' = [res EXCEPT ![p] = r.outcome]
            /\ resp' = [resp EXCEPT ![p] = answer]
            /\ valid' = [valid EXCEPT ![p] = r.valid]
            /\ wrote' = IF r.wrote THEN wrote \cup {p} ELSE wrote
            /\ hookRan' = IF r.hookRan THEN hookRan \cup {p} ELSE hookRan
            /\ lastText' = IF r.wrote THEN [lastText EXCEPT ![p] = answer.text]
                           ELSE lastText
            /\ order' = Append(order, p)
            /\ pc' = n.pc /\ idx' = n.idx /\ exitCode' = n.exitCode
            /\ traceback' = n.traceback
    /\ UNCHANGED <<config, link, vimrc, clock, theme, cmds, lastCmd, stdout,
                   env, pre>>

\* return 0 at the end of cmd_install
InstallReturn ==
    /\ pc = "install" /\ idx > Len(Registry)
    /\ pc' = "idle" /\ exitCode' = 0
    /\ UNCHANGED <<config, target, link, vimrc, clock, idx, theme, cmds, lastCmd,
                   traceback, stdout, lastText, env, hist>>

Next ==
    \/ CmdDoctor
    \/ CmdList
    \/ CmdShow
    \/ \E t \in Themes : CmdInstall(t)
    \/ InstallSkip
    \/ InstallShell
    \/ InstallDownloaded
    \/ InstallReturn

Spec == Init /\ [][Next]_vars

\* The same commands, started before any target file exists
SpecFresh == InitFresh /\ [][Next]_vars

-----------------------------------------------------------------------------
(* Properties *)

Pos(p) == CHOOSE i \in 1..Len(Registry) : Registry[i] = p
Called == {order[i] : i \in 1..Len(order)}
IsPrefix(s, t) == Len(s) <= Len(t) /\ SubSeq(t, 1, Len(s)) = s
InstallRan == lastCmd = "install" /\ pre.config.exists
InstallDone == InstallRan /\ pc = "idle"

\* The newline generate() puts between base text and theme text
Padding(baseText) ==
    IF baseText # <<>> /\ baseText[Len(baseText)] # NL THEN <<NL>> ELSE <<>>

\* text is the two header lines of comment character c, with the decimal
\* numeral of some timestamp, followed by rest
HeaderThen(c, text, rest) ==
    \E k \in 1..3 :
        LET ds == SubSeq(text, 9, 8 + k) IN
        /\ Len(text) >= 9 + k
        /\ SubSeq(text, 1, 8) = <<c, SP, MAGIC_STRING, NL, c, SP, "Generated", SP>>
        /\ \A i \in 1..k : IsDigit(ds[i])
        /\ text[9 + k] = NL
        /\ SubSeq(text, 10 + k, Len(text)) = rest

\* C1: the install command calls install(theme) on the enabled plugins in
\* registry order and stops at the first one that fails with exit code 1;
\* no later plugin is installed or touched, every earlier plugin keeps the
\* theme it was just given, and exit code 0 means every enabled plugin's
\* install succeeded.
C1_InstallStopsAtFirstFailure ==
    InstallRan =>
      /\ \A i, j \in 1..Len(order) : i < j => Pos(order[i]) < Pos(order[j])
      /\ Called \subseteq config.enabled
      /\ \A p \in config.enabled \cap RegistrySet :
            (\E q \in Called : Pos(p) < Pos(q)) => p \in Called
      /\ \A p \in RegistrySet : (p \in Called) <=> (res[p] # "none")
      /\ \A i \in 1..Len(order) : i < Len(order) => res[order[i]] = "ok"
      /\ \A p \in Called : res[p] # "ok" => pc = "idle" /\ exitCode = 1
      /\ \A p \in Downloaded \ Called :
            target[p] = pre.target[p] /\ p \notin wrote /\ p \notin hookRan
      /\ "shell" \notin Called => link = pre.link /\ vimrc = pre.vimrc
      /\ \A p \in Called :
            res[p] = "ok" =>
               IF p = "shell" THEN link = Symlink(ScriptName(theme))
               ELSE /\ p \in wrote
                    /\ HeaderThen(Comment(p), target[p].content,
                                  base[p].content \o Padding(base[p].content)
                                  \o resp[p].text)
      /\ pc = "idle" =>
            /\ exitCode \in {0, 1}
            /\ exitCode = 0 <=>
                  \A p \in config.enabled \cap RegistrySet : res[p] = "ok"

C1_Witness ==
    /\ InstallDone /\ exitCode = 1
    /\ order = <<"shell", "xresources", "dunst">>
    /\ res["dunst"] = "fail"
    /\ "i3" \in config.enabled
    /\ "xresources" \in wrote /\ link = Symlink(ScriptName(theme))

\* C2: when the fetch answers 404, install(theme) of a downloaded-file plugin
\* returns failure after a diagnostic, raises nothing unhandled, and the
\* install command ends with exit code 1.
C2_NotFoundIsReportedFailure ==
    \A p \in Downloaded :
        resp[p].status = 404 =>
            /\ res[p] = "fail"
            /\ ~traceback
            /\ pc = "idle" /\ exitCode = 1

\* C3: install(theme) whose fetch answers 404 leaves the target file as it
\* was, content and header and modification time, an absent one absent, and
\* does not run the post-process hook.
C3_NotFoundLeavesTarget ==
    \A p \in Downloaded :
        resp[p].status = 404 =>
            /\ target[p] = pre.target[p]
            /\ p \notin wrote
            /\ p \notin hookRan

C3_Witness ==
    /\ resp["xresources"].status = 404
    /\ pre.target["xresources"].exists
    /\ pre.target["xresources"].content # <<>>
    /\ DValidate("xresources", pre.target["xresources"], base["xresources"])
    /\ base["xresources"].exists

\* C4: once install(theme) has written the target file, validate() on the
\* same plugin succeeds, provided the file's modification time is within 5
\* seconds of the clock read for the header.
C4_InstallThenValidate ==
    \A p \in wrote :
        Abs(target[p].mtime - clock) <= TOLERANCE =>
            DValidate(p, target[p], base[p])

C4_Witness ==
    /\ "xresources" \in wrote
    /\ res["xresources"] = "fail"
    /\ pre.target["xresources"].exists
    /\ target["xresources"].mtime - clock = TOLERANCE

\* C5: a successful install(theme) makes the target file the magic line, the
\* line "Generated <clock>", the whole .base content, one newline if and only
\* if the text so far does not end in a newline, and the fetched theme text.
C5_TargetContent ==
    \A p \in Downloaded :
        res[p] = "ok" =>
            \E ds \in {<<a>> : a \in 1..10} \cup {<<a, b>> : a \in 2..10, b \in 1..10} :
                LET digits == [i \in 1..Len(ds) |-> DigitChars[ds[i]]]
                    value == IF Len(ds) = 1 THEN ds[1] - 1
                             ELSE 10 * (ds[1] - 1) + (ds[2] - 1)
                    sofar == <<Comment(p), SP, MAGIC_STRING, NL,
                               Comment(p), SP, "Generated", SP>>
                             \o digits \o <<NL>> \o base[p].content
                IN /\ value = clock
                   /\ target[p].content =
                        sofar
                        \o (IF sofar[Len(sofar)] = NL THEN <<>> ELSE <<NL>>)
                        \o resp[p].text

C5_Witness ==
    /\ res["i3"] = "ok"
    /\ base["i3"].content = <<"x">>
    /\ pre.target["i3"].exists /\ pre.target["i3"].content # <<>>
    /\ target["i3"].content =
         <<"#", SP, MAGIC_STRING, NL, "#", SP, "Generated", SP, "1", "0", NL,
           "x", NL, "y", NL>>

\* C6: validate() of a downloaded-file plugin fails on a target file whose
\* provenance header records a timestamp more than 5 seconds from the file's
\* modification time, and does not fail on a difference of 5 seconds or less.
C6_StaleHeaderFailsValidate ==
    \A p \in Downloaded : \A ts \in 0..clock :
        ( /\ valid[p] # "none"
          /\ pre.target[p].exists
          /\ IsPrefix(Header(Comment(p), ts), pre.target[p].content) )
        => ( valid[p] = "fail" <=> Abs(pre.target[p].mtime - ts) > TOLERANCE )

C6_Witness ==
    /\ lastCmd = "doctor"
    /\ valid["dunst"] = "fail"
    /\ IsPrefix(Header("#", Stamp), pre.target["dunst"].content)
    /\ pre.target["dunst"].mtime = Stamp + TOLERANCE + 1

\* C7: doctor exits 0 exactly when every enabled name is in the registry, the
\* shell plugin is enabled and validate() succeeds for every enabled plugin,
\* and exits 1 otherwise; an absent config file is created as an empty
\* object and evaluated with nothing enabled.
C7_DoctorExitCode ==
    lastCmd = "doctor" =>
        /\ exitCode \in {0, 1}
        /\ ~traceback
        /\ config.exists
        /\ pre.config.exists => config = pre.config
        /\ ~pre.config.exists => config.enabled = {}
        /\ exitCode = 0 <=>
              /\ config.enabled \subseteq RegistrySet
              /\ "shell" \in config.enabled
              /\ \A p \in config.enabled : PluginValidate(p)

C7_Witness ==
    /\ lastCmd = "doctor" /\ exitCode = 0
    /\ config.enabled = RegistrySet
    /\ link.kind = "symlink"

\* C8, as stated: started with no target file, a target file that exists is
\* the magic line, the "Generated <timestamp>" line, and then the base-file
\* content followed directly by the theme text of the last install that
\* wrote it.
C8_RemainderIsBaseThenTheme ==
    \A p \in Downloaded :
        target[p].exists =>
            HeaderThen(Comment(p), target[p].content,
                       base[p].content \o lastText[p])

\* C8, amended: started with no target file, a target file that exists is
\* the magic line, the "Generated <timestamp>" line, the base-file content,
\* a newline when that content is non-empty and does not end in one, and the
\* theme text of the last install that wrote it.
C8_ManagedStructure ==
    \A p \in Downloaded :
        target[p].exists =>
            HeaderThen(Comment(p), target[p].content,
                       base[p].content
                       \o (IF base[p].content = <<>> THEN <<>>
                           ELSE IF base[p].content[Len(base[p].content)] = NL
                           THEN <<>> ELSE <<NL>>)
                       \o lastText[p])

C8_Witness ==
    /\ cmds = 2 /\ InstallDone
    /\ res["xresources"] = "fail" /\ valid["xresources"] = "ok"
    /\ pre.target["xresources"].exists
    /\ target["xresources"] # pre.target["xresources"]
    /\ base["xresources"].content = <<"x">>

\* C9: the shell plugin's install(theme) succeeds when the theme's script
\* exists, replaces whatever is at ~/.base16_theme by a symlink to it, and
\* current_theme and show then report that theme with exit code 0; without
\* the script it fails and leaves ~/.base16_theme and ~/.vimrc_background
\* alone; with no link, current_theme is none and show exits 1.
C9_ShellInstallThenShow ==
    /\ (InstallRan /\ res["shell"] # "none") =>
          IF shellDir /\ ScriptName(theme) \in scripts
          THEN /\ res["shell"] = "ok"
               /\ link = [kind |-> "symlink",
                          dest |-> <<"base16-">> \o theme \o <<".sh">>]
               /\ CurrentTheme(link) = [none |-> FALSE, theme |-> theme]
          ELSE /\ res["shell"] = "fail"
               /\ link = pre.link /\ vimrc = pre.vimrc
    /\ link.kind = "absent" => CurrentTheme(link).none
    /\ (lastCmd = "show" /\ pre.config.exists) =>
          /\ link.kind = "absent" => exitCode = 1 /\ stdout = {}
          /\ \A t \in Themes :
                link = [kind |-> "symlink",
                        dest |-> <<"base16-">> \o t \o <<".sh">>]
                => exitCode = 0 /\ stdout = {t}

C9_Witness ==
    /\ InstallRan /\ res["shell"] = "ok"
    /\ pre.link.kind = "symlink" /\ pre.link # link
    /\ theme = <<"solarized", "-dark">>

\* C10: install(theme) of a downloaded-file plugin on a target file that
\* fails validate(), or without a .base file, returns failure, leaves the
\* target file as it was and does not run the post-process hook, whatever
\* the theme and whatever the fetch answers.
C10_InvalidTargetNotOverwritten ==
    \A p \in Downloaded :
        ( /\ res[p] # "none"
          /\ \/ ~DValidate(p, pre.target[p], base[p])
             \/ ~base[p].exists )
        => /\ res[p] = "fail"
           /\ target[p] = pre.target[p]
           /\ p \notin hookRan

====
